---------------------------- MODULE Spec2Model ----------------------------
(***************************************************************************)
(* MakerTalk: the access-controlled messaging core (the Convex handlers of *)
(* convex/workspaces.ts, convex/channels.ts, convex/directMessages.ts,     *)
(* convex/messages.ts and convex/channelNotifications.ts).                 *)
(*                                                                         *)
(* Every table of convex/schema.ts is a variable.  A mutation handler is   *)
(* one action (Convex runs a handler as one transaction); a query handler  *)
(* reads the tables only and is an operator of the caller and arguments.   *)
(* Ids are positive integers, 0 stands for null / undefined / no caller.   *)
(* Append-only tables are sequences (the id of a row is its position, the  *)
(* order of the sequence is the order of _creationTime); tables whose rows *)
(* are deleted and never referenced by id are bags of rows.                *)
(***************************************************************************)
EXTENDS Integers, Sequences, FiniteSets, Bags, TLC

\* ------------------------------------------------------------ bounds
MaxUsers == 3
MaxWorkspaces == 2
MaxChannels == 3
MaxDms == 2
MaxMessages == 2
MaxInvites == 2
MaxNotifications == 1
MaxTime == 2
MaxArgLen == 2
MaxPageSize == 2
MaxInviteTime == 4
MaxListed == 3

Users == 1..MaxUsers
NoUser == 0
Callers == Users \cup {NoUser}
Emojis == {"+1", "eyes"}
Texts == {"hi"}
EditTexts == {"ed"}
ChannelNames == {"dev"}
Roles == {"owner", "admin", "member"}

VARIABLES
  workspaces,            \* Seq of [ownerId]
  workspaceMembers,      \* Bag of [workspaceId, userId, role]
  channels,              \* Seq of [workspaceId, name, isPrivate, createdBy, exists]
  channelMembers,        \* Bag of [channelId, userId]
  directMessages,        \* Seq of [workspaceId, participants]
  messages,              \* Seq of [workspaceId, channelId, dmId, senderId, text,
                         \*         parentMessageId, editedAt, deletedAt, createdAt]
  reactions,             \* Bag of [messageId, userId, emoji]
  invites,               \* Seq of [workspaceId, invitedBy, expiresAt, usedAt]
  channelNotifications,  \* Seq of [channelId, userId, enabled, lastSeen]
  now,                   \* Date.now()
  last                   \* the last mutation call: its arguments and its outcome

tables == <<workspaces, workspaceMembers, channels, channelMembers, directMessages,
            messages, reactions, invites, channelNotifications>>
vars == <<workspaces, workspaceMembers, channels, channelMembers, directMessages,
          messages, reactions, invites, channelNotifications, now, last>>

\* ------------------------------------------------------------ store primitives
BagAdd(b, row) == b (+) SetToBag({row})
BagRemove(b, row) == b (-) SetToBag({row})
Copies(b, row) == IF BagIn(row, b) THEN CopiesIn(row, b) ELSE 0

RECURSIVE SumCopies(_, _)
SumCopies(b, S) ==
  IF S = {} THEN 0
  ELSE LET r == CHOOSE x \in S : TRUE IN Copies(b, r) + SumCopies(b, S \ {r})

\* rows of a bag that satisfy an index / filter expression
Matching(b, Test(_)) == {r \in BagToSet(b) : Test(r)}
\* number of rows a query yields (.collect().length)
CountMatching(b, Test(_)) == SumCopies(b, Matching(b, Test))

RECURSIVE SeqFilterIdx(_, _, _)
\* the positions i..Len(s) of s whose row satisfies Test, in ascending order
SeqFilterIdx(s, Test(_), i) ==
  IF i > Len(s) THEN <<>>
  ELSE (IF Test(i) THEN <<i>> ELSE <<>>) \o SeqFilterIdx(s, Test, i + 1)

Reverse(s) == [i \in 1..Len(s) |-> s[Len(s) + 1 - i]]
Range(s) == {s[i] : i \in 1..Len(s)}
Includes(s, x) == \E i \in 1..Len(s) : s[i] = x
Max(S) == CHOOSE x \in S : \A y \in S : y <= x

RECURSIVE DedupFrom(_, _)
\* [...new Set(xs)]: the elements of xs in order of first occurrence
DedupFrom(xs, seen) ==
  IF xs = <<>> THEN <<>>
  ELSE IF Head(xs) \in seen THEN DedupFrom(Tail(xs), seen)
  ELSE <<Head(xs)>> \o DedupFrom(Tail(xs), seen \cup {Head(xs)})
Dedup(xs) == DedupFrom(xs, {})

\* ------------------------------------------------------------ membership lookups
\* workspaceMembers.withIndex("by_workspace_user", ws, u)
WsRows(ws, u) == {r \in BagToSet(workspaceMembers) : r.workspaceId = ws /\ r.userId = u}
WsRowCount(ws, u) == SumCopies(workspaceMembers, WsRows(ws, u))
\* .unique() throws when the index yields more than one row
WsUniqueThrows(ws, u) == WsRowCount(ws, u) > 1
IsWsMember(ws, u) == WsRowCount(ws, u) >= 1
WsRole(ws, u) == IF WsRows(ws, u) = {} THEN "none" ELSE (CHOOSE r \in WsRows(ws, u) : TRUE).role

\* channelMembers.withIndex("by_channel_user", ch, u)
ChRowCount(ch, u) == Copies(channelMembers, [channelId |-> ch, userId |-> u])
ChUniqueThrows(ch, u) == ChRowCount(ch, u) > 1
IsChMember(ch, u) == ChRowCount(ch, u) >= 1

\* ctx.db.get(id)
ChannelExists(ch) == ch \in 1..Len(channels) /\ channels[ch].exists
DmExists(dm) == dm \in 1..Len(directMessages)
MessageExists(m) == m \in 1..Len(messages)
WorkspaceExists(ws) == ws \in 1..Len(workspaces)

\* ------------------------------------------------------------ the record of a call
\* The last call a client made and what it got back.  Arguments that a call does not
\* take are 0; ret is the id the handler returned (0 for none), page the message ids
\* it returned.  A call that throws is rolled back: the client sees the error only.
\* For addReaction, had and count are what the caller saw before the call: whether
\* the caller's reaction was there, and the count list showed for the emoji.
NoArgs ==
  [ws |-> 0, ch |-> 0, dm |-> 0, msg |-> 0, user |-> 0, token |-> 0, participants |-> <<>>,
   emoji |-> ""]
Call(op, caller, args, err, ret, page) ==
  [op |-> op, caller |-> caller, ws |-> args.ws, ch |-> args.ch, dm |-> args.dm,
   msg |-> args.msg, user |-> args.user, token |-> args.token,
   participants |-> args.participants, emoji |-> args.emoji, ok |-> (err = ""), err |-> err,
   ret |-> IF err = "" THEN ret ELSE 0, page |-> IF err = "" THEN page ELSE <<>>,
   had |-> FALSE, count |-> 0]
Threw(op, caller, args, err) == Call(op, caller, NoArgs, err, 0, <<>>)

\* ------------------------------------------------------------ convex/lib/rateLimit.ts
\* The quotas of createWorkspace (5 per hour) and createInvite (10 per hour), scaled
\* to the tables of the model.  The model's clock covers a few milliseconds: every
\* call of a behaviour falls into one window.
CreateWorkspaceRate == 1
CreateInviteRate == 1

\* ------------------------------------------------------------ convex/workspaces.ts
\* 7 * 24 * 60 * 60 * 1000 ms, in ticks of the model's clock
InviteTtl == 2

WorkspacesCreateError(u) == IF u = NoUser THEN "Not authenticated" ELSE ""

\* create that enters the creator with the role member
WorkspacesCreateOwnerAsMember(u) ==
  /\ u # NoUser
  /\ Len(workspaces) < MaxWorkspaces /\ Len(channels) < MaxChannels
  /\ workspaces' = Append(workspaces, [ownerId |-> u])
  /\ workspaceMembers' =
       BagAdd(workspaceMembers,
              [workspaceId |-> Len(workspaces) + 1, userId |-> u, role |-> "member"])
  /\ channels' = Append(channels, [workspaceId |-> Len(workspaces) + 1, name |-> "general",
                                   isPrivate |-> FALSE, createdBy |-> u, exists |-> TRUE])
  /\ channelMembers' = BagAdd(channelMembers, [channelId |-> Len(channels) + 1, userId |-> u])
  /\ last' = Call("workspaces.create", u, NoArgs, "", Len(workspaces) + 1, <<>>)
  /\ UNCHANGED <<directMessages, messages, reactions, invites, channelNotifications, now>>

WorkspacesCreate(u) ==
  /\ WorkspacesCreateError(u) # ""
     \/ (Len(workspaces) < MaxWorkspaces /\ Len(channels) < MaxChannels)
  /\ LET err == WorkspacesCreateError(u)
         ws == Len(workspaces) + 1
         ch == Len(channels) + 1
     IN IF err # ""
        THEN /\ last' = Threw("workspaces.create", u, NoArgs, err)
             /\ UNCHANGED <<tables, now>>
        ELSE /\ workspaces' = Append(workspaces, [ownerId |-> u])
             /\ workspaceMembers' =
                  BagAdd(workspaceMembers, [workspaceId |-> ws, userId |-> u, role |-> "owner"])
             /\ channels' = Append(channels, [workspaceId |-> ws, name |-> "general",
                                              isPrivate |-> FALSE, createdBy |-> u,
                                              exists |-> TRUE])
             /\ channelMembers' = BagAdd(channelMembers, [channelId |-> ch, userId |-> u])
             /\ last' = Call("workspaces.create", u, NoArgs, "", ws, <<>>)
             /\ UNCHANGED <<directMessages, messages, reactions, invites,
                            channelNotifications, now>>

GenerateInviteError(u, ws) ==
  IF u = NoUser THEN "Not authenticated"
  ELSE IF WsUniqueThrows(ws, u) THEN "unique() found several rows"
  ELSE IF ~IsWsMember(ws, u) \/ WsRole(ws, u) = "member" THEN "Insufficient permissions"
  ELSE ""

\* the token is the invite's position: crypto.randomUUID() is unique per invite
GenerateInvite(u, ws) ==
  /\ GenerateInviteError(u, ws) # "" \/ Len(invites) < MaxInvites
  /\ LET err == GenerateInviteError(u, ws)
         args == [NoArgs EXCEPT !.ws = ws]
     IN IF err # ""
        THEN /\ last' = Threw("generateInvite", u, args, err)
             /\ UNCHANGED <<tables, now>>
        ELSE /\ invites' = Append(invites, [workspaceId |-> ws, invitedBy |-> u,
                                            expiresAt |-> now + InviteTtl, usedAt |-> 0])
             /\ last' = Call("generateInvite", u, args, "", Len(invites) + 1, <<>>)
             /\ UNCHANGED <<workspaces, workspaceMembers, channels, channelMembers,
                            directMessages, messages, reactions, channelNotifications, now>>

\* invites.withIndex("by_token", token).unique()
InviteByToken(token) == IF token \in 1..Len(invites) THEN token ELSE 0

\* joinByInvite without the usedAt check
JoinByInviteErrorIgnoresUsed(u, token) ==
  IF u = NoUser THEN "Not authenticated"
  ELSE IF InviteByToken(token) = 0 \/ invites[token].expiresAt < now
       THEN "Invalid or expired invite"
  ELSE IF IsWsMember(invites[token].workspaceId, u) THEN "Already a member of this workspace"
  ELSE ""

JoinByInviteError(u, token) ==
  IF u = NoUser THEN "Not authenticated"
  ELSE IF \/ InviteByToken(token) = 0
          \/ invites[token].usedAt # 0
          \/ invites[token].expiresAt < now
       THEN "Invalid or expired invite"
  ELSE IF WsUniqueThrows(invites[token].workspaceId, u) THEN "unique() found several rows"
  ELSE IF IsWsMember(invites[token].workspaceId, u) THEN "Already a member of this workspace"
  ELSE ""

\* joinByInvite that inserts the membership and leaves the invite unmarked
JoinByInviteNoMark(u, token) ==
  /\ JoinByInviteError(u, token) = ""
  /\ workspaceMembers' =
       BagAdd(workspaceMembers, [workspaceId |-> invites[token].workspaceId,
                                 userId |-> u, role |-> "member"])
  /\ last' = Call("joinByInvite", u, [NoArgs EXCEPT !.token = token], "",
                  invites[token].workspaceId, <<>>)
  /\ UNCHANGED <<workspaces, channels, channelMembers, directMessages, messages,
                 reactions, invites, channelNotifications, now>>

\* joinByInvite that marks the invite used before it looks for the caller's membership,
\* in a store that keeps the writes of a call that throws
JoinByInviteMarksBeforeCheck(u, token) ==
  LET err == JoinByInviteError(u, token)
      args == [NoArgs EXCEPT !.token = token]
  IN IF err = "Already a member of this workspace"
     THEN /\ invites' = [invites EXCEPT ![token].usedAt = now]
          /\ last' = Threw("joinByInvite", u, args, err)
          /\ UNCHANGED <<workspaces, workspaceMembers, channels, channelMembers,
                         directMessages, messages, reactions, channelNotifications, now>>
     ELSE IF err # ""
     THEN /\ last' = Threw("joinByInvite", u, args, err)
          /\ UNCHANGED <<tables, now>>
     ELSE /\ workspaceMembers' =
               BagAdd(workspaceMembers, [workspaceId |-> invites[token].workspaceId,
                                         userId |-> u, role |-> "member"])
          /\ invites' = [invites EXCEPT ![token].usedAt = now]
          /\ last' = Call("joinByInvite", u, args, "", invites[token].workspaceId, <<>>)
          /\ UNCHANGED <<workspaces, channels, channelMembers, directMessages, messages,
                         reactions, channelNotifications, now>>

JoinByInvite(u, token) ==
  LET err == JoinByInviteError(u, token)
      args == [NoArgs EXCEPT !.token = token]
  IN IF err # ""
     THEN /\ last' = Threw("joinByInvite", u, args, err)
          /\ UNCHANGED <<tables, now>>
     ELSE /\ workspaceMembers' =
               BagAdd(workspaceMembers, [workspaceId |-> invites[token].workspaceId,
                                         userId |-> u, role |-> "member"])
          /\ invites' = [invites EXCEPT ![token].usedAt = now]
          /\ last' = Call("joinByInvite", u, args, "", invites[token].workspaceId, <<>>)
          /\ UNCHANGED <<workspaces, channels, channelMembers, directMessages, messages,
                         reactions, channelNotifications, now>>

\* updateMemberRole without the check on the target's owner role
UpdateMemberRoleErrorNoOwnerCheck(u, ws, target, newRole) ==
  IF u = NoUser THEN "Not authenticated"
  ELSE IF ~IsWsMember(ws, u) \/ (WsRole(ws, u) # "owner" /\ WsRole(ws, u) # "admin")
       THEN "Only workspace owners and admins can change member roles"
  ELSE IF ~IsWsMember(ws, target) THEN "User is not a member of this workspace"
  ELSE IF newRole = "admin" /\ WsRole(ws, u) # "owner"
       THEN "Only workspace owners can promote members to admin"
  ELSE ""

\* updateMemberRole without the check that only an owner promotes to admin
UpdateMemberRoleErrorAdminPromotes(u, ws, target, newRole) ==
  IF u = NoUser THEN "Not authenticated"
  ELSE IF WsUniqueThrows(ws, u) THEN "unique() found several rows"
  ELSE IF ~IsWsMember(ws, u) \/ (WsRole(ws, u) # "owner" /\ WsRole(ws, u) # "admin")
       THEN "Only workspace owners and admins can change member roles"
  ELSE IF WsUniqueThrows(ws, target) THEN "unique() found several rows"
  ELSE IF ~IsWsMember(ws, target) THEN "User is not a member of this workspace"
  ELSE IF WsRole(ws, target) = "owner" THEN "Cannot change owner role"
  ELSE ""

UpdateMemberRoleError(u, ws, target, newRole) ==
  IF u = NoUser THEN "Not authenticated"
  ELSE IF WsUniqueThrows(ws, u) THEN "unique() found several rows"
  ELSE IF ~IsWsMember(ws, u) \/ (WsRole(ws, u) # "owner" /\ WsRole(ws, u) # "admin")
       THEN "Only workspace owners and admins can change member roles"
  ELSE IF WsUniqueThrows(ws, target) THEN "unique() found several rows"
  ELSE IF ~IsWsMember(ws, target) THEN "User is not a member of this workspace"
  ELSE IF WsRole(ws, target) = "owner" THEN "Cannot change owner role"
  ELSE IF newRole = "admin" /\ WsRole(ws, u) # "owner"
       THEN "Only workspace owners can promote members to admin"
  ELSE ""

UpdateMemberRole(u, ws, target, newRole) ==
  LET err == UpdateMemberRoleError(u, ws, target, newRole)
      args == [NoArgs EXCEPT !.ws = ws, !.user = target]
      old == [workspaceId |-> ws, userId |-> target, role |-> WsRole(ws, target)]
  IN IF err # ""
     THEN /\ last' = Threw("updateMemberRole", u, args, err)
          /\ UNCHANGED <<tables, now>>
     ELSE /\ workspaceMembers' =
               BagAdd(BagRemove(workspaceMembers, old), [old EXCEPT !.role = newRole])
          /\ last' = Call("updateMemberRole", u, args, "", 0, <<>>)
          /\ UNCHANGED <<workspaces, channels, channelMembers, directMessages, messages,
                         reactions, invites, channelNotifications, now>>

\* workspaces.get: the error the query throws, "" when it returns
WorkspacesGetError(u, ws) ==
  IF u = NoUser THEN "Not authenticated"
  ELSE IF WsUniqueThrows(ws, u) THEN "unique() found several rows"
  ELSE IF ~IsWsMember(ws, u) THEN "Not a member of this workspace"
  ELSE ""

\* workspaces.getMembers: the user ids of the rows of by_workspace
WorkspacesGetMembers(u, ws) ==
  {r.userId : r \in {x \in BagToSet(workspaceMembers) : x.workspaceId = ws}}

WorkspacesGetMembersWithRoles(u, ws) ==
  IF u = NoUser THEN {}
  ELSE IF ~IsWsMember(ws, u) THEN {}
  ELSE {[userId |-> r.userId, role |-> r.role] :
          r \in {x \in BagToSet(workspaceMembers) : x.workspaceId = ws}}

\* ------------------------------------------------------------ convex/channels.ts
ChannelsCreateError(u, ws) ==
  IF u = NoUser THEN "Not authenticated"
  ELSE IF WsUniqueThrows(ws, u) THEN "unique() found several rows"
  ELSE IF ~IsWsMember(ws, u) THEN "Not a member of this workspace"
  ELSE ""

ChannelsCreate(u, ws, name, isPrivate) ==
  /\ ChannelsCreateError(u, ws) # "" \/ Len(channels) < MaxChannels
  /\ LET err == ChannelsCreateError(u, ws)
         args == [NoArgs EXCEPT !.ws = ws]
         ch == Len(channels) + 1
     IN IF err # ""
        THEN /\ last' = Threw("channels.create", u, args, err)
             /\ UNCHANGED <<tables, now>>
        ELSE /\ channels' = Append(channels, [workspaceId |-> ws, name |-> name,
                                              isPrivate |-> isPrivate, createdBy |-> u,
                                              exists |-> TRUE])
             /\ channelMembers' = BagAdd(channelMembers, [channelId |-> ch, userId |-> u])
             /\ last' = Call("channels.create", u, args, "", ch, <<>>)
             /\ UNCHANGED <<workspaces, workspaceMembers, directMessages, messages,
                            reactions, invites, channelNotifications, now>>

\* the channel c once per channelMembers row of (c, u): the by_user rows of the caller
\* that name c, each mapped to the channel it names
RECURSIVE PerMembershipRow(_, _, _)
PerMembershipRow(c, u, n) == IF n = 0 THEN <<>> ELSE <<c>> \o PerMembershipRow(c, u, n - 1)

\* the private channels of ws named by the caller's channelMembers rows, from channel c
\* on; a deleted channel (db.get gives null) and a channel that is public or of another
\* workspace are filtered out.  The rows are taken in the order of the channels they name.
RECURSIVE PrivateChannelsOf(_, _, _)
PrivateChannelsOf(u, ws, c) ==
  IF c > Len(channels) THEN <<>>
  ELSE (IF channels[c].exists /\ channels[c].workspaceId = ws /\ channels[c].isPrivate
        THEN PerMembershipRow(c, u, Copies(channelMembers, [channelId |-> c, userId |-> u]))
        ELSE <<>>) \o PrivateChannelsOf(u, ws, c + 1)

\* channels.list that returns every private channel of the workspace
ChannelsListEveryPrivate(u, ws) ==
  IF u = NoUser THEN <<>>
  ELSE IF ~IsWsMember(ws, u) THEN <<>>
  ELSE LET OfWs(c) == channels[c].exists /\ channels[c].workspaceId = ws
       IN SeqFilterIdx(channels, OfWs, 1)

\* channels.list: the public channels of ws, then, per channelMembers row of the
\* caller, the private channel of ws it names (a sequence: a channel is listed once per
\* row)
ChannelsList(u, ws) ==
  IF u = NoUser THEN <<>>
  ELSE IF ~IsWsMember(ws, u) THEN <<>>
  ELSE LET IsPublic(c) == channels[c].exists /\ channels[c].workspaceId = ws
                          /\ ~channels[c].isPrivate
       IN SeqFilterIdx(channels, IsPublic, 1) \o PrivateChannelsOf(u, ws, 1)

\* channels.get: the error the query throws, "" when it returns the channel or null
ChannelsGetError(u, ch) ==
  IF u = NoUser THEN "Not authenticated"
  ELSE IF ~ChannelExists(ch) THEN ""
  ELSE IF WsUniqueThrows(channels[ch].workspaceId, u) THEN "unique() found several rows"
  ELSE IF ~IsWsMember(channels[ch].workspaceId, u) THEN "Not a member of this workspace"
  ELSE IF channels[ch].isPrivate /\ ChUniqueThrows(ch, u) THEN "unique() found several rows"
  ELSE IF channels[ch].isPrivate /\ ~IsChMember(ch, u)
       THEN "Not a member of this private channel"
  ELSE ""

\* addMember without the check that the target is not yet in the channel
AddMemberErrorNoDuplicateCheck(u, ch, target) ==
  IF u = NoUser THEN "Not authenticated"
  ELSE IF ~ChannelExists(ch) THEN "Channel not found"
  ELSE IF ~IsChMember(ch, u) THEN "You must be a member of this channel to add others"
  ELSE IF ~IsWsMember(channels[ch].workspaceId, target)
       THEN "User is not a member of this workspace"
  ELSE ""

\* addMember without the check that the target is in the channel's workspace
AddMemberErrorNoWorkspaceCheck(u, ch, target) ==
  IF u = NoUser THEN "Not authenticated"
  ELSE IF ~ChannelExists(ch) THEN "Channel not found"
  ELSE IF ChUniqueThrows(ch, u) THEN "unique() found several rows"
  ELSE IF ~IsChMember(ch, u) THEN "You must be a member of this channel to add others"
  ELSE IF ChUniqueThrows(ch, target) THEN "unique() found several rows"
  ELSE IF IsChMember(ch, target) THEN "User is already a member of this channel"
  ELSE ""

AddMemberError(u, ch, target) ==
  IF u = NoUser THEN "Not authenticated"
  ELSE IF ~ChannelExists(ch) THEN "Channel not found"
  ELSE IF ChUniqueThrows(ch, u) THEN "unique() found several rows"
  ELSE IF ~IsChMember(ch, u) THEN "You must be a member of this channel to add others"
  ELSE IF WsUniqueThrows(channels[ch].workspaceId, target) THEN "unique() found several rows"
  ELSE IF ~IsWsMember(channels[ch].workspaceId, target)
       THEN "User is not a member of this workspace"
  ELSE IF ChUniqueThrows(ch, target) THEN "unique() found several rows"
  ELSE IF IsChMember(ch, target) THEN "User is already a member of this channel"
  ELSE ""

AddMember(u, ch, target) ==
  LET err == AddMemberError(u, ch, target)
      args == [NoArgs EXCEPT !.ch = ch, !.user = target]
  IN IF err # ""
     THEN /\ last' = Threw("channels.addMember", u, args, err)
          /\ UNCHANGED <<tables, now>>
     ELSE /\ channelMembers' = BagAdd(channelMembers, [channelId |-> ch, userId |-> target])
          /\ last' = Call("channels.addMember", u, args, "", 0, <<>>)
          /\ UNCHANGED <<workspaces, workspaceMembers, channels, directMessages, messages,
                         reactions, invites, channelNotifications, now>>

\* channel creator, or owner / admin of the channel's workspace
CanManageChannel(u, ch) ==
  \/ channels[ch].createdBy = u
  \/ WsRole(channels[ch].workspaceId, u) \in {"owner", "admin"}

RemoveMemberError(u, ch, target) ==
  IF u = NoUser THEN "Not authenticated"
  ELSE IF ~ChannelExists(ch) THEN "Channel not found"
  ELSE IF WsUniqueThrows(channels[ch].workspaceId, u) THEN "unique() found several rows"
  ELSE IF ~CanManageChannel(u, ch)
       THEN "Only channel creator, workspace owners and admins can remove members"
  ELSE IF ChUniqueThrows(ch, target) THEN "unique() found several rows"
  ELSE IF ~IsChMember(ch, target) THEN "User is not a member of this channel"
  ELSE ""

RemoveMember(u, ch, target) ==
  LET err == RemoveMemberError(u, ch, target)
      args == [NoArgs EXCEPT !.ch = ch, !.user = target]
  IN IF err # ""
     THEN /\ last' = Threw("channels.removeMember", u, args, err)
          /\ UNCHANGED <<tables, now>>
     ELSE /\ channelMembers' =
               BagRemove(channelMembers, [channelId |-> ch, userId |-> target])
          /\ last' = Call("channels.removeMember", u, args, "", 0, <<>>)
          /\ UNCHANGED <<workspaces, workspaceMembers, channels, directMessages, messages,
                         reactions, invites, channelNotifications, now>>

DeleteChannelError(u, ch) ==
  IF u = NoUser THEN "Not authenticated"
  ELSE IF ~ChannelExists(ch) THEN "Channel not found"
  ELSE IF WsUniqueThrows(channels[ch].workspaceId, u) THEN "unique() found several rows"
  ELSE IF ~CanManageChannel(u, ch)
       THEN "Only channel creator, workspace owners and admins can delete channels"
  ELSE ""

\* deletes the channel, then every channelMembers row of by_channel
DeleteChannel(u, ch) ==
  LET err == DeleteChannelError(u, ch)
      args == [NoArgs EXCEPT !.ch = ch]
      Others == {r \in BagToSet(channelMembers) : r.channelId # ch}
  IN IF err # ""
     THEN /\ last' = Threw("channels.deleteChannel", u, args, err)
          /\ UNCHANGED <<tables, now>>
     ELSE /\ channels' = [channels EXCEPT ![ch].exists = FALSE]
          /\ channelMembers' = [r \in Others |-> channelMembers[r]]
          /\ last' = Call("channels.deleteChannel", u, args, "", 0, <<>>)
          /\ UNCHANGED <<workspaces, workspaceMembers, directMessages, messages,
                         reactions, invites, channelNotifications, now>>

LeaveError(u, ch) ==
  IF u = NoUser THEN "Not authenticated"
  ELSE IF ChUniqueThrows(ch, u) THEN "unique() found several rows"
  ELSE IF ~IsChMember(ch, u) THEN "Not a member of this channel"
  ELSE ""

Leave(u, ch) ==
  LET err == LeaveError(u, ch)
      args == [NoArgs EXCEPT !.ch = ch]
  IN IF err # ""
     THEN /\ last' = Threw("channels.leave", u, args, err)
          /\ UNCHANGED <<tables, now>>
     ELSE /\ channelMembers' = BagRemove(channelMembers, [channelId |-> ch, userId |-> u])
          /\ last' = Call("channels.leave", u, args, "", 0, <<>>)
          /\ UNCHANGED <<workspaces, workspaceMembers, channels, directMessages, messages,
                         reactions, invites, channelNotifications, now>>

JoinError(u, ch) ==
  IF u = NoUser THEN "Not authenticated"
  ELSE IF ~ChannelExists(ch) THEN "Channel not found"
  ELSE IF channels[ch].isPrivate THEN "Cannot join private channel without invitation"
  ELSE IF WsUniqueThrows(channels[ch].workspaceId, u) THEN "unique() found several rows"
  ELSE IF ~IsWsMember(channels[ch].workspaceId, u) THEN "Not a member of this workspace"
  ELSE IF ChUniqueThrows(ch, u) THEN "unique() found several rows"
  ELSE ""

\* joining a channel the caller is already in returns without a write
Join(u, ch) ==
  LET err == JoinError(u, ch)
      args == [NoArgs EXCEPT !.ch = ch]
  IN IF err # ""
     THEN /\ last' = Threw("channels.join", u, args, err)
          /\ UNCHANGED <<tables, now>>
     ELSE /\ channelMembers' =
               IF IsChMember(ch, u) THEN channelMembers
               ELSE BagAdd(channelMembers, [channelId |-> ch, userId |-> u])
          /\ last' = Call("channels.join", u, args, "", 0, <<>>)
          /\ UNCHANGED <<workspaces, workspaceMembers, channels, directMessages, messages,
                         reactions, invites, channelNotifications, now>>

\* ------------------------------------------------------------ convex/directMessages.ts
\* rateLimiter.limit(...) throws when the caller's window is used up; whether it is,
\* is an input of the call (limited)
DirectMessagesCreateError(u, ws, limited) ==
  IF u = NoUser THEN "Not authenticated"
  ELSE IF limited THEN "Rate limited"
  ELSE IF WsUniqueThrows(ws, u) THEN "unique() found several rows"
  ELSE IF ~IsWsMember(ws, u) THEN "Not a member of this workspace"
  ELSE ""

\* [...new Set([userId, ...args.participants])]
NormalizeParticipants(u, ps) == Dedup(<<u>> \o ps)

\* a comparison that takes the order of the stored array into account
SameParticipantsInOrder(dmRow, participants) == dmRow.participants = participants

SameParticipants(dmRow, participants) ==
  /\ Len(dmRow.participants) = Len(participants)
  /\ \A i \in 1..Len(participants) : Includes(dmRow.participants, participants[i])

\* existingDMs.find(...): the first DM of the workspace with these participants, or 0
FindExistingDm(ws, participants) ==
  LET Hits == {d \in 1..Len(directMessages) :
                 /\ directMessages[d].workspaceId = ws
                 /\ SameParticipants(directMessages[d], participants)}
  IN IF Hits = {} THEN 0 ELSE CHOOSE d \in Hits : \A e \in Hits : d <= e

DirectMessagesCreate(u, ws, ps, limited) ==
  LET err == DirectMessagesCreateError(u, ws, limited)
      args == [NoArgs EXCEPT !.ws = ws, !.participants = ps]
      participants == NormalizeParticipants(u, ps)
      existingDM == FindExistingDm(ws, participants)
  IN IF err # ""
     THEN /\ last' = Threw("directMessages.create", u, args, err)
          /\ UNCHANGED <<tables, now>>
     ELSE IF existingDM # 0
     THEN /\ last' = Call("directMessages.create", u, args, "", existingDM, <<>>)
          /\ UNCHANGED <<tables, now>>
     ELSE /\ Len(directMessages) < MaxDms
          /\ directMessages' = Append(directMessages, [workspaceId |-> ws,
                                                        participants |-> participants])
          /\ last' = Call("directMessages.create", u, args, "", Len(directMessages) + 1, <<>>)
          /\ UNCHANGED <<workspaces, workspaceMembers, channels, channelMembers, messages,
                         reactions, invites, channelNotifications, now>>

AddParticipantError(u, dm, target) ==
  IF u = NoUser THEN "Not authenticated"
  ELSE IF ~DmExists(dm) THEN "DM not found"
  ELSE IF ~Includes(directMessages[dm].participants, u) THEN "Not a participant of this DM"
  ELSE IF Includes(directMessages[dm].participants, target)
       THEN "User is already a participant"
  ELSE ""

AddParticipant(u, dm, target) ==
  LET err == AddParticipantError(u, dm, target)
      args == [NoArgs EXCEPT !.dm = dm, !.user = target]
  IN IF err # ""
     THEN /\ last' = Threw("directMessages.addParticipant", u, args, err)
          /\ UNCHANGED <<tables, now>>
     ELSE /\ directMessages' =
               [directMessages EXCEPT ![dm].participants = Append(@, target)]
          /\ last' = Call("directMessages.addParticipant", u, args, "", dm, <<>>)
          /\ UNCHANGED <<workspaces, workspaceMembers, channels, channelMembers, messages,
                         reactions, invites, channelNotifications, now>>

\* directMessages.list: the DMs of the workspace the caller takes part in
DirectMessagesList(u, ws) ==
  IF u = NoUser THEN <<>>
  ELSE IF ~IsWsMember(ws, u) THEN <<>>
  ELSE LET Mine(d) == directMessages[d].workspaceId = ws
                      /\ Includes(directMessages[d].participants, u)
       IN SeqFilterIdx(directMessages, Mine, 1)

DirectMessagesGet(u, dm) ==
  IF u = NoUser THEN 0
  ELSE IF ~DmExists(dm) \/ ~Includes(directMessages[dm].participants, u) THEN 0
  ELSE dm

\* ------------------------------------------------------------ convex/messages.ts
\* send without the channelMembers lookup for a private channel
SendErrorNoPrivateCheck(u, ws, ch, dm, limited) ==
  IF u = NoUser THEN "Not authenticated"
  ELSE IF limited THEN "Rate limited"
  ELSE IF ~IsWsMember(ws, u) THEN "Not a member of this workspace"
  ELSE IF ch # 0
       THEN IF ~ChannelExists(ch) \/ channels[ch].workspaceId # ws THEN "Invalid channel"
            ELSE ""
  ELSE IF dm # 0
       THEN IF \/ ~DmExists(dm)
               \/ directMessages[dm].workspaceId # ws
               \/ ~Includes(directMessages[dm].participants, u)
            THEN "Invalid direct message"
            ELSE ""
  ELSE "Must specify either channelId or dmId"

\* the checks of send in the order of the handler; a call with both a channelId and a
\* dmId takes the channel branch
SendError(u, ws, ch, dm, limited) ==
  IF u = NoUser THEN "Not authenticated"
  ELSE IF limited THEN "Rate limited"
  ELSE IF WsUniqueThrows(ws, u) THEN "unique() found several rows"
  ELSE IF ~IsWsMember(ws, u) THEN "Not a member of this workspace"
  ELSE IF ch # 0
       THEN IF ~ChannelExists(ch) \/ channels[ch].workspaceId # ws THEN "Invalid channel"
            ELSE IF channels[ch].isPrivate /\ ChUniqueThrows(ch, u)
                 THEN "unique() found several rows"
            ELSE IF channels[ch].isPrivate /\ ~IsChMember(ch, u)
                 THEN "Not a member of this private channel"
            ELSE ""
  ELSE IF dm # 0
       THEN IF \/ ~DmExists(dm)
               \/ directMessages[dm].workspaceId # ws
               \/ ~Includes(directMessages[dm].participants, u)
            THEN "Invalid direct message"
            ELSE ""
  ELSE "Must specify either channelId or dmId"

Send(u, ws, ch, dm, text, parent, limited) ==
  LET err == SendError(u, ws, ch, dm, limited)
      args == [NoArgs EXCEPT !.ws = ws, !.ch = ch, !.dm = dm, !.msg = parent]
  IN IF err # ""
     THEN /\ last' = Threw("messages.send", u, args, err)
          /\ UNCHANGED <<tables, now>>
     ELSE /\ Len(messages) < MaxMessages
          /\ messages' = Append(messages,
                 [workspaceId |-> ws, channelId |-> ch, dmId |-> dm, senderId |-> u,
                  text |-> text, parentMessageId |-> parent, editedAt |-> 0,
                  deletedAt |-> 0, createdAt |-> now])
          /\ last' = Call("messages.send", u, args, "", Len(messages) + 1, <<>>)
          /\ UNCHANGED <<workspaces, workspaceMembers, channels, channelMembers,
                         directMessages, reactions, invites, channelNotifications, now>>

\* messages.get: the message id, or 0 for null
MessagesGet(u, m) ==
  IF u = NoUser THEN 0
  ELSE IF ~MessageExists(m) \/ messages[m].deletedAt # 0 THEN 0
  ELSE IF ~IsWsMember(messages[m].workspaceId, u) THEN 0
  ELSE m

\* .paginate(paginationOpts): numItems rows after the cursor (the number of rows
\* already read; 0 for the first page)
Paginate(rows, cursor, numItems) ==
  LET end == IF cursor + numItems < Len(rows) THEN cursor + numItems ELSE Len(rows)
  IN [page |-> SubSeq(rows, cursor + 1, end), isDone |-> end >= Len(rows),
      continueCursor |-> end]

EmptyPage == [page |-> <<>>, isDone |-> TRUE, continueCursor |-> 0]

\* whether list reaches its query for this caller and target
ListAuthorized(u, ch, dm) ==
  IF u = NoUser THEN FALSE
  ELSE IF ch # 0
       THEN /\ ChannelExists(ch)
            /\ IsWsMember(channels[ch].workspaceId, u)
            /\ channels[ch].isPrivate => IsChMember(ch, u)
  ELSE IF dm # 0
       THEN DmExists(dm) /\ Includes(directMessages[dm].participants, u)
  ELSE FALSE

\* list without the deletedAt filter
ListRowsKeepDeleted(ch, dm) ==
  LET Top(m) == /\ IF ch # 0 THEN messages[m].channelId = ch ELSE messages[m].dmId = dm
                /\ messages[m].parentMessageId = 0
  IN Reverse(SeqFilterIdx(messages, Top, 1))

\* list without the parentMessageId filter
ListRowsWithReplies(ch, dm) ==
  LET InTarget(m) ==
        /\ IF ch # 0 THEN messages[m].channelId = ch ELSE messages[m].dmId = dm
        /\ messages[m].deletedAt = 0
  IN Reverse(SeqFilterIdx(messages, InTarget, 1))

\* list without order("desc"): the index order, oldest first
ListRowsAscending(ch, dm) ==
  LET Top(m) == /\ IF ch # 0 THEN messages[m].channelId = ch ELSE messages[m].dmId = dm
                /\ messages[m].deletedAt = 0
                /\ messages[m].parentMessageId = 0
  IN SeqFilterIdx(messages, Top, 1)

\* by_channel / by_dm, filtered on deletedAt and parentMessageId, order("desc")
ListRows(ch, dm) ==
  LET Top(m) == /\ IF ch # 0 THEN messages[m].channelId = ch ELSE messages[m].dmId = dm
                /\ messages[m].deletedAt = 0
                /\ messages[m].parentMessageId = 0
  IN Reverse(SeqFilterIdx(messages, Top, 1))

MessagesList(u, ch, dm, cursor, numItems) ==
  IF ~ListAuthorized(u, ch, dm) THEN EmptyPage
  ELSE Paginate(ListRows(ch, dm), cursor, numItems)

\* by_parent, filtered on deletedAt
ThreadRows(parent) ==
  LET Reply(m) == messages[m].parentMessageId = parent /\ messages[m].deletedAt = 0
  IN SeqFilterIdx(messages, Reply, 1)

GetThreadCount(m) == Len(ThreadRows(m))

GetThreadMessages(u, parent, cursor, numItems) ==
  IF u = NoUser THEN EmptyPage
  ELSE IF ~MessageExists(parent) THEN EmptyPage
  ELSE IF ~IsWsMember(messages[parent].workspaceId, u) THEN EmptyPage
  ELSE Paginate(ThreadRows(parent), cursor, numItems)

\* the reaction groups list joins to a message: emoji -> count
ReactionCount(m, emoji) ==
  LET Rows == {r \in BagToSet(reactions) : r.messageId = m /\ r.emoji = emoji}
  IN SumCopies(reactions, Rows)

HasReaction(u, m, emoji) ==
  Copies(reactions, [messageId |-> m, userId |-> u, emoji |-> emoji]) >= 1

\* edit without the sender check
EditErrorAnySender(u, m) ==
  IF u = NoUser THEN "Not authenticated"
  ELSE IF ~MessageExists(m) THEN "Cannot edit this message"
  ELSE ""

EditError(u, m) ==
  IF u = NoUser THEN "Not authenticated"
  ELSE IF ~MessageExists(m) \/ messages[m].senderId # u THEN "Cannot edit this message"
  ELSE ""

Edit(u, m, text) ==
  LET err == EditError(u, m)
      args == [NoArgs EXCEPT !.msg = m]
  IN IF err # ""
     THEN /\ last' = Threw("messages.edit", u, args, err)
          /\ UNCHANGED <<tables, now>>
     ELSE /\ messages' = [messages EXCEPT ![m].text = text, ![m].editedAt = now]
          /\ last' = Call("messages.edit", u, args, "", 0, <<>>)
          /\ UNCHANGED <<workspaces, workspaceMembers, channels, channelMembers,
                         directMessages, reactions, invites, channelNotifications, now>>

RemoveError(u, m) ==
  IF u = NoUser THEN "Not authenticated"
  ELSE IF ~MessageExists(m) THEN "Message not found"
  ELSE IF WsUniqueThrows(messages[m].workspaceId, u) THEN "unique() found several rows"
  ELSE IF /\ messages[m].senderId # u
          /\ WsRole(messages[m].workspaceId, u) \notin {"owner", "admin"}
       THEN "Cannot delete this message"
  ELSE ""

Remove(u, m) ==
  LET err == RemoveError(u, m)
      args == [NoArgs EXCEPT !.msg = m]
  IN IF err # ""
     THEN /\ last' = Threw("messages.remove", u, args, err)
          /\ UNCHANGED <<tables, now>>
     ELSE /\ messages' = [messages EXCEPT ![m].deletedAt = now]
          /\ last' = Call("messages.remove", u, args, "", 0, <<>>)
          /\ UNCHANGED <<workspaces, workspaceMembers, channels, channelMembers,
                         directMessages, reactions, invites, channelNotifications, now>>

\* by_message_user filtered on the emoji, .unique()
ReactionRow(u, m, emoji) == [messageId |-> m, userId |-> u, emoji |-> emoji]

AddReactionError(u, m, emoji, limited) ==
  IF u = NoUser THEN "Not authenticated"
  ELSE IF limited THEN "Rate limited"
  ELSE IF Copies(reactions, ReactionRow(u, m, emoji)) > 1 THEN "unique() found several rows"
  ELSE ""

\* a toggle that inserts without looking for the caller's row
ToggleReactionAlwaysInsert(rs, u, m, emoji) == BagAdd(rs, ReactionRow(u, m, emoji))

\* a toggle whose removal ignores the emoji filter: it deletes every reaction of the
\* caller on the message
ToggleReactionDropsAll(rs, u, m, emoji) ==
  IF Copies(rs, ReactionRow(u, m, emoji)) >= 1
  THEN LET Kept == {r \in BagToSet(rs) : ~(r.messageId = m /\ r.userId = u)}
       IN [r \in Kept |-> rs[r]]
  ELSE BagAdd(rs, ReactionRow(u, m, emoji))

\* the reactions table after the toggle of addReaction
ToggleReaction(rs, u, m, emoji) ==
  IF Copies(rs, ReactionRow(u, m, emoji)) >= 1
  THEN BagRemove(rs, ReactionRow(u, m, emoji))
  ELSE BagAdd(rs, ReactionRow(u, m, emoji))

AddReaction(u, m, emoji, limited) ==
  LET err == AddReactionError(u, m, emoji, limited)
      args == [NoArgs EXCEPT !.msg = m, !.emoji = emoji]
  IN IF err # ""
     THEN /\ last' = Threw("messages.addReaction", u, args, err)
          /\ UNCHANGED <<tables, now>>
     ELSE /\ reactions' = ToggleReaction(reactions, u, m, emoji)
          /\ last' = [Call("messages.addReaction", u, args, "", 0, <<>>)
                        EXCEPT !.had = HasReaction(u, m, emoji),
                               !.count = ReactionCount(m, emoji)]
          /\ UNCHANGED <<workspaces, workspaceMembers, channels, channelMembers,
                         directMessages, messages, invites, channelNotifications, now>>

\* ------------------------------------------------------------ convex/channelNotifications.ts
ToggleError(u) == IF u = NoUser THEN "Not authenticated" ELSE ""

\* by_channel_user(ch, u).first(): the position of the first row, or 0
FirstNotification(ch, u) ==
  LET Hits == {i \in 1..Len(channelNotifications) :
                 channelNotifications[i].channelId = ch
                 /\ channelNotifications[i].userId = u}
  IN IF Hits = {} THEN 0 ELSE CHOOSE i \in Hits : \A j \in Hits : i <= j

Toggle(u, ch, enabled) ==
  LET err == ToggleError(u)
      args == [NoArgs EXCEPT !.ch = ch]
      existing == FirstNotification(ch, u)
  IN IF err # ""
     THEN /\ last' = Threw("channelNotifications.toggle", u, args, err)
          /\ UNCHANGED <<tables, now>>
     ELSE /\ existing = 0 => Len(channelNotifications) < MaxNotifications
          /\ channelNotifications' =
               IF existing # 0
               THEN [channelNotifications EXCEPT ![existing].enabled = enabled]
               ELSE Append(channelNotifications,
                           [channelId |-> ch, userId |-> u, enabled |-> enabled,
                            lastSeen |-> 0])
          /\ last' = Call("channelNotifications.toggle", u, args, "", 0, <<>>)
          /\ UNCHANGED <<workspaces, workspaceMembers, channels, channelMembers,
                         directMessages, messages, reactions, invites, now>>

\* by_channel_created(ch) filtered on createdAt > lastSeen
UnnotifiedOf(n) ==
  LET Newer(m) == messages[m].channelId = n.channelId /\ messages[m].createdAt > n.lastSeen
  IN SeqFilterIdx(messages, Newer, 1)

RECURSIVE UnnotifiedFrom(_, _)
\* the messages collected over the caller's enabled rows i..Len, in the order of the loop
UnnotifiedFrom(u, i) ==
  IF i > Len(channelNotifications) THEN <<>>
  ELSE (IF channelNotifications[i].userId = u /\ channelNotifications[i].enabled
        THEN UnnotifiedOf(channelNotifications[i]) ELSE <<>>) \o UnnotifiedFrom(u, i + 1)

\* the row after the loop body: lastSeen moves to the newest createdAt collected
AdvanceLastSeen(u, n) ==
  IF n.userId = u /\ n.enabled /\ UnnotifiedOf(n) # <<>>
  THEN [n EXCEPT !.lastSeen = Max({messages[m].createdAt : m \in Range(UnnotifiedOf(n))})]
  ELSE n

GetUnnotifiedMessagesError(u) == IF u = NoUser THEN "Not authenticated" ELSE ""

GetUnnotifiedMessages(u) ==
  LET err == GetUnnotifiedMessagesError(u)
  IN IF err # ""
     THEN /\ last' = Threw("getUnnotifiedMessages", u, NoArgs, err)
          /\ UNCHANGED <<tables, now>>
     ELSE /\ channelNotifications' =
               [i \in 1..Len(channelNotifications) |->
                  AdvanceLastSeen(u, channelNotifications[i])]
          /\ last' = Call("getUnnotifiedMessages", u, NoArgs, "", 0, UnnotifiedFrom(u, 1))
          /\ UNCHANGED <<workspaces, workspaceMembers, channels, channelMembers,
                         directMessages, messages, reactions, invites, now>>

\* ------------------------------------------------------------ the clock
\* Date.now() advances between calls (two calls can read the same millisecond)
Tick ==
  /\ now < MaxTime
  /\ now' = now + 1
  /\ UNCHANGED <<tables, last>>

\* ------------------------------------------------------------ specifications
NoCall == Call("", NoUser, NoArgs, "", 0, <<>>)

\* the deployment before its first call: every table is empty
Init ==
  /\ workspaces = <<>>
  /\ workspaceMembers = EmptyBag
  /\ channels = <<>>
  /\ channelMembers = EmptyBag
  /\ directMessages = <<>>
  /\ messages = <<>>
  /\ reactions = EmptyBag
  /\ invites = <<>>
  /\ channelNotifications = <<>>
  /\ now = 1
  /\ last = NoCall

WorkspaceIds == 1..Len(workspaces)
ChannelIds == 1..Len(channels)
DmIds == 1..Len(directMessages)
MessageIds == 1..Len(messages)
RECURSIVE SeqsUpTo(_, _)
SeqsUpTo(S, n) ==
  IF n = 0 THEN {<<>>}
  ELSE SeqsUpTo(S, n - 1) \cup {Append(s, x) : s \in SeqsUpTo(S, n - 1), x \in S}
ParticipantArgs == SeqsUpTo(Users, MaxArgLen)

Next ==
  \/ \E u \in Callers : WorkspacesCreate(u)
  \/ \E u \in Callers, ws \in WorkspaceIds : GenerateInvite(u, ws)
  \/ \E u \in Callers, token \in 1..MaxInvites : JoinByInvite(u, token)
  \/ \E u \in Callers, ws \in WorkspaceIds, t \in Users, r \in {"admin", "member"} :
        UpdateMemberRole(u, ws, t, r)
  \/ \E u \in Callers, ws \in WorkspaceIds, n \in ChannelNames, p \in BOOLEAN :
        ChannelsCreate(u, ws, n, p)
  \/ \E u \in Callers, ch \in ChannelIds, t \in Users : AddMember(u, ch, t)
  \/ \E u \in Callers, ch \in ChannelIds, t \in Users : RemoveMember(u, ch, t)
  \/ \E u \in Callers, ch \in ChannelIds : DeleteChannel(u, ch)
  \/ \E u \in Callers, ch \in ChannelIds : Leave(u, ch)
  \/ \E u \in Callers, ch \in ChannelIds : Join(u, ch)
  \/ \E u \in Callers, ws \in WorkspaceIds, ps \in ParticipantArgs, l \in BOOLEAN :
        DirectMessagesCreate(u, ws, ps, l)
  \/ \E u \in Callers, dm \in DmIds, t \in Users : AddParticipant(u, dm, t)
  \/ \E u \in Callers, ws \in WorkspaceIds, ch \in {0} \cup ChannelIds,
        dm \in {0} \cup DmIds, text \in Texts, parent \in {0} \cup MessageIds,
        l \in BOOLEAN : Send(u, ws, ch, dm, text, parent, l)
  \/ \E u \in Callers, m \in MessageIds, text \in EditTexts : Edit(u, m, text)
  \/ \E u \in Callers, m \in MessageIds : Remove(u, m)
  \/ \E u \in Callers, m \in MessageIds, e \in Emojis, l \in BOOLEAN :
        AddReaction(u, m, e, l)
  \/ \E u \in Callers, ch \in ChannelIds, en \in BOOLEAN : Toggle(u, ch, en)
  \/ \E u \in Callers : GetUnnotifiedMessages(u)
  \/ Tick

Spec == Init /\ [][Next]_vars

\* A workspace in use: user 1 created workspace 1 (and with it the public channel 1,
\* "general"), invited user 2, who joined as a member, and created the private
\* channel 2; user 3 is in no workspace.  Spec reaches this state in four calls.
Seeded ==
  /\ workspaces = <<[ownerId |-> 1]>>
  /\ workspaceMembers = SetToBag({[workspaceId |-> 1, userId |-> 1, role |-> "owner"],
                                  [workspaceId |-> 1, userId |-> 2, role |-> "member"]})
  /\ channels = <<[workspaceId |-> 1, name |-> "general", isPrivate |-> FALSE,
                   createdBy |-> 1, exists |-> TRUE],
                  [workspaceId |-> 1, name |-> "dev", isPrivate |-> TRUE,
                   createdBy |-> 1, exists |-> TRUE]>>
  /\ channelMembers = SetToBag({[channelId |-> 1, userId |-> 1],
                                [channelId |-> 2, userId |-> 1]})
  /\ directMessages = <<>>
  /\ messages = <<>>
  /\ reactions = EmptyBag
  /\ invites = <<[workspaceId |-> 1, invitedBy |-> 1, expiresAt |-> 1 + InviteTtl,
                  usedAt |-> 1]>>
  /\ channelNotifications = <<>>
  /\ now = 1

InitSeeded == Seeded /\ last = Call("channels.create", 1, [NoArgs EXCEPT !.ws = 1], "", 2, <<>>)

SendAny ==
  \E u \in Callers, ws \in WorkspaceIds, ch \in {0} \cup ChannelIds,
     dm \in {0} \cup DmIds, text \in Texts, parent \in {0} \cup MessageIds,
     l \in BOOLEAN : Send(u, ws, ch, dm, text, parent, l)
RemoveAny == \E u \in Callers, m \in MessageIds : Remove(u, m)
AddReactionAny ==
  \E u \in Callers, m \in MessageIds, e \in Emojis, l \in BOOLEAN : AddReaction(u, m, e, l)
ToggleAny == \E u \in Callers, ch \in ChannelIds, en \in BOOLEAN : Toggle(u, ch, en)
GetUnnotifiedAny == \E u \in Callers : GetUnnotifiedMessages(u)
DmCreateAny ==
  \E u \in Callers, ws \in WorkspaceIds, ps \in ParticipantArgs, l \in BOOLEAN :
     DirectMessagesCreate(u, ws, ps, l)
AddParticipantAny == \E u \in Callers, dm \in DmIds, t \in Users : AddParticipant(u, dm, t)

AddMemberAny == \E u \in Callers, ch \in ChannelIds, t \in Users : AddMember(u, ch, t)
LeaveAny == \E u \in Callers, ch \in ChannelIds : Leave(u, ch)

NextMsg == SendAny \/ RemoveAny \/ AddMemberAny \/ LeaveAny
SpecMsg == InitSeeded /\ [][NextMsg]_vars

NextNotif == SendAny \/ RemoveAny \/ ToggleAny \/ GetUnnotifiedAny \/ Tick
SpecNotif == InitSeeded /\ [][NextNotif]_vars

\* the seeded workspace after user 1 sent one message to each channel
InitReact ==
  /\ workspaces = <<[ownerId |-> 1]>>
  /\ workspaceMembers = SetToBag({[workspaceId |-> 1, userId |-> 1, role |-> "owner"],
                                  [workspaceId |-> 1, userId |-> 2, role |-> "member"]})
  /\ channels = <<[workspaceId |-> 1, name |-> "general", isPrivate |-> FALSE,
                   createdBy |-> 1, exists |-> TRUE],
                  [workspaceId |-> 1, name |-> "dev", isPrivate |-> TRUE,
                   createdBy |-> 1, exists |-> TRUE]>>
  /\ channelMembers = SetToBag({[channelId |-> 1, userId |-> 1],
                                [channelId |-> 2, userId |-> 1]})
  /\ directMessages = <<>>
  /\ messages = [m \in 1..2 |->
                   [workspaceId |-> 1, channelId |-> m, dmId |-> 0, senderId |-> 1,
                    text |-> "hi", parentMessageId |-> 0, editedAt |-> 0,
                    deletedAt |-> 0, createdAt |-> 1]]
  /\ reactions = EmptyBag
  /\ invites = <<[workspaceId |-> 1, invitedBy |-> 1, expiresAt |-> 1 + InviteTtl,
                  usedAt |-> 1]>>
  /\ channelNotifications = <<>>
  /\ now = 1
  /\ last = Call("messages.send", 1, [NoArgs EXCEPT !.ws = 1, !.ch = 2], "", 2, <<>>)

NextReact == AddReactionAny
SpecReact == InitReact /\ [][NextReact]_vars

GenerateInviteAny == \E u \in Callers, ws \in WorkspaceIds : GenerateInvite(u, ws)
UpdateMemberRoleAny ==
  \E u \in Callers, ws \in WorkspaceIds, t \in Users, r \in {"admin", "member"} :
     UpdateMemberRole(u, ws, t, r)
ChannelsCreateAny ==
  \E u \in Callers, ws \in WorkspaceIds, n \in ChannelNames, p \in BOOLEAN :
     ChannelsCreate(u, ws, n, p)

NextDm == DmCreateAny \/ AddParticipantAny
SpecDm == InitSeeded /\ [][NextDm]_vars

\* the calls on workspaces, invites and roles; TickInvite lets the clock run past the
\* expiry of the invites generated at its start
WorkspacesCreateAny == \E u \in Callers : WorkspacesCreate(u)
JoinByInviteAny == \E u \in Callers, token \in 1..MaxInvites : JoinByInvite(u, token)
TickInvite ==
  /\ now < MaxInviteTime
  /\ now' = now + 1
  /\ UNCHANGED <<tables, last>>

\* the deployment after user 1 created workspace 1: the workspace, its owner row, the
\* channel "general" and the owner's channel membership
Created ==
  /\ workspaces = <<[ownerId |-> 1]>>
  /\ workspaceMembers = SetToBag({[workspaceId |-> 1, userId |-> 1, role |-> "owner"]})
  /\ channels = <<[workspaceId |-> 1, name |-> "general", isPrivate |-> FALSE,
                   createdBy |-> 1, exists |-> TRUE]>>
  /\ channelMembers = SetToBag({[channelId |-> 1, userId |-> 1]})
  /\ directMessages = <<>>
  /\ messages = <<>>
  /\ reactions = EmptyBag
  /\ invites = <<>>
  /\ channelNotifications = <<>>
  /\ now = 1
InitCreated == Created /\ last = Call("workspaces.create", 1, NoArgs, "", 1, <<>>)

NextInvite == GenerateInviteAny \/ JoinByInviteAny \/ TickInvite
SpecInvite == InitCreated /\ [][NextInvite]_vars

NextRoles ==
  WorkspacesCreateAny \/ GenerateInviteAny \/ JoinByInviteAny \/ UpdateMemberRoleAny
SpecRoles == Init /\ [][NextRoles]_vars

\* sending, editing and removing on the seeded workspace, with the clock running
EditAny == \E u \in Callers, m \in MessageIds, text \in EditTexts : Edit(u, m, text)
NextEdit == SendAny \/ EditAny \/ RemoveAny \/ Tick
SpecEdit == InitSeeded /\ [][NextEdit]_vars

\* sending to the channels and the direct message of the seeded workspace, after
\* user 1 created the direct message with user 2
InitTarget ==
  /\ workspaces = <<[ownerId |-> 1]>>
  /\ workspaceMembers = SetToBag({[workspaceId |-> 1, userId |-> 1, role |-> "owner"],
                                  [workspaceId |-> 1, userId |-> 2, role |-> "member"]})
  /\ channels = <<[workspaceId |-> 1, name |-> "general", isPrivate |-> FALSE,
                   createdBy |-> 1, exists |-> TRUE],
                  [workspaceId |-> 1, name |-> "dev", isPrivate |-> TRUE,
                   createdBy |-> 1, exists |-> TRUE]>>
  /\ channelMembers = SetToBag({[channelId |-> 1, userId |-> 1],
                                [channelId |-> 2, userId |-> 1]})
  /\ directMessages = <<[workspaceId |-> 1, participants |-> <<1, 2>>]>>
  /\ messages = <<>>
  /\ reactions = EmptyBag
  /\ invites = <<[workspaceId |-> 1, invitedBy |-> 1, expiresAt |-> 1 + InviteTtl,
                  usedAt |-> 1]>>
  /\ channelNotifications = <<>>
  /\ now = 1
  /\ last = Call("directMessages.create", 1,
                 [NoArgs EXCEPT !.ws = 1, !.participants = <<2>>], "", 1, <<>>)

NextTarget == SendAny \/ RemoveAny
SpecTarget == InitTarget /\ [][NextTarget]_vars

\* The seeded workspace after user 1 created the direct message with user 2 and the
\* two, in turn, sent MaxListed messages, all to the public channel 1 or all to the
\* direct message: each message is top-level or a reply to an earlier one, and
\* createdAt is the clock at its send, which never runs backwards.
ListedTimes == 1..MaxListed
ListedTargets == {[channelId |-> 1, dmId |-> 0], [channelId |-> 0, dmId |-> 1]}
ListedMessages ==
  {ms \in [1..MaxListed ->
             [workspaceId : {1}, channelId : {0, 1}, dmId : {0, 1}, senderId : {1, 2},
              text : Texts, parentMessageId : 0..(MaxListed - 1), editedAt : {0},
              deletedAt : {0}, createdAt : ListedTimes]] :
     /\ \E t \in ListedTargets :
          \A i \in 1..MaxListed : ms[i].channelId = t.channelId /\ ms[i].dmId = t.dmId
     /\ \A i \in 1..MaxListed :
          /\ ms[i].parentMessageId < i
          /\ ms[i].senderId = 1 + (i % 2)
          /\ i > 1 => ms[i - 1].createdAt <= ms[i].createdAt}
InitListed ==
  /\ workspaces = <<[ownerId |-> 1]>>
  /\ workspaceMembers = SetToBag({[workspaceId |-> 1, userId |-> 1, role |-> "owner"],
                                  [workspaceId |-> 1, userId |-> 2, role |-> "member"]})
  /\ channels = <<[workspaceId |-> 1, name |-> "general", isPrivate |-> FALSE,
                   createdBy |-> 1, exists |-> TRUE],
                  [workspaceId |-> 1, name |-> "dev", isPrivate |-> TRUE,
                   createdBy |-> 1, exists |-> TRUE]>>
  /\ channelMembers = SetToBag({[channelId |-> 1, userId |-> 1],
                                [channelId |-> 2, userId |-> 1]})
  /\ directMessages = <<[workspaceId |-> 1, participants |-> <<1, 2>>]>>
  /\ messages \in ListedMessages
  /\ reactions = EmptyBag
  /\ invites = <<[workspaceId |-> 1, invitedBy |-> 1, expiresAt |-> 1 + InviteTtl,
                  usedAt |-> 1]>>
  /\ channelNotifications = <<>>
  /\ now = messages[MaxListed].createdAt
  /\ last = Call("messages.send", messages[MaxListed].senderId,
                 [NoArgs EXCEPT !.ws = 1, !.ch = messages[MaxListed].channelId,
                                !.dm = messages[MaxListed].dmId,
                                !.msg = messages[MaxListed].parentMessageId],
                 "", MaxListed, <<>>)

NextListed == RemoveAny \/ EditAny
SpecListed == InitListed /\ [][NextListed]_vars

\* ------------------------------------------------------------ claims
\* the pagination options a client can pass
PageSizes == 1..MaxPageSize
Cursors == 0..Len(messages)

IsPrivateChannel(ch) == ChannelExists(ch) /\ channels[ch].isPrivate
\* the messages a list call shows to u, over every page it can ask for
ListedTo(u, ch, dm) ==
  UNION {Range(MessagesList(u, ch, dm, c, n).page) : c \in Cursors, n \in PageSizes}
ThreadShownTo(u, parent) ==
  UNION {Range(GetThreadMessages(u, parent, c, n).page) : c \in Cursors, n \in PageSizes}
WorkspaceGatedMutations ==
  {"messages.send", "channels.create", "directMessages.create", "generateInvite",
   "updateMemberRole"}

\* C1: a user who is not a member of workspace W gets an empty or null result from
\* every query scoped to W (messages.list, messages.get, getThreadMessages,
\* getThreadCount, channels.list, directMessages.list, getMembers,
\* getMembersWithRoles), and no mutation scoped to W (send, channel create, DM
\* create, addReaction on a message of W, generateInvite, updateMemberRole)
\* succeeds for that user.
C1_MembershipGate ==
  \A u \in Callers, ws \in WorkspaceIds :
    ~IsWsMember(ws, u) =>
      /\ \A ch \in ChannelIds : channels[ch].workspaceId = ws => ListedTo(u, ch, 0) = {}
      /\ \A dm \in DmIds : directMessages[dm].workspaceId = ws => ListedTo(u, 0, dm) = {}
      /\ \A m \in MessageIds :
            messages[m].workspaceId = ws =>
              /\ MessagesGet(u, m) = 0
              /\ ThreadShownTo(u, m) = {}
              /\ GetThreadCount(m) = 0
      /\ ChannelsList(u, ws) = <<>>
      /\ DirectMessagesList(u, ws) = <<>>
      /\ WorkspacesGetMembers(u, ws) = {}
      /\ WorkspacesGetMembersWithRoles(u, ws) = {}
      /\ (last.ok /\ last.caller = u /\ last.ws = ws) => last.op \notin WorkspaceGatedMutations
      /\ (last.ok /\ last.caller = u /\ last.op = "messages.addReaction")
            => messages[last.msg].workspaceId # ws

\* C2: no read operation returns a message of a private channel, or a count of such
\* messages, to a caller without a channelMembers row for that channel at the time
\* of the call.
C2_PrivateChannelConfidential ==
  \A u \in Callers, m \in MessageIds :
    (IsPrivateChannel(messages[m].channelId) /\ ~IsChMember(messages[m].channelId, u)) =>
      /\ m \notin ListedTo(u, messages[m].channelId, 0)
      /\ MessagesGet(u, m) # m
      /\ \A p \in MessageIds : m \notin ThreadShownTo(u, p)
      /\ messages[m].parentMessageId # 0
            => m \notin Range(ThreadRows(messages[m].parentMessageId))
      /\ (last.op = "getUnnotifiedMessages" /\ last.caller = u) => m \notin Range(last.page)

\* for a private channel and a workspace member without a channelMembers row for
\* it, messages.list returns the empty page and messages.send raises an error
C3_ListAndSendRejected ==
  \A u \in Users, ch \in ChannelIds :
    (/\ IsPrivateChannel(ch)
     /\ IsWsMember(channels[ch].workspaceId, u)
     /\ ~IsChMember(ch, u)) =>
      /\ \A c \in Cursors, n \in PageSizes : MessagesList(u, ch, 0, c, n) = EmptyPage
      /\ \A ws \in WorkspaceIds, dm \in {0} \cup DmIds, l \in BOOLEAN :
            SendError(u, ws, ch, dm, l) # ""

C3_NoRowInserted ==
  Len(messages') = Len(messages) + 1 =>
    LET row == messages'[Len(messages')]
    IN IsPrivateChannel(row.channelId) => IsChMember(row.channelId, row.senderId)

\* C3: a workspace member without a channelMembers row for a private channel is
\* listed the empty page (isDone = TRUE), has every send to the channel raise an
\* error, and no step inserts a message row of a non-member into a private channel.
C3_PrivateChannelNonMember == []C3_ListAndSendRejected /\ [][C3_NoRowInserted]_vars

\* C3 witness: user 2, a workspace member who is not in the private channel 2, had a
\* send to it rejected, while the channel holds a message that its member 1 lists.
C3_Witness ==
  /\ last.op = "messages.send" /\ last.caller = 2
  /\ last.err = "Not a member of this private channel"
  /\ IsPrivateChannel(2) /\ IsWsMember(1, 2) /\ ~IsChMember(2, 2)
  /\ ListedTo(1, 2, 0) # {}
  /\ MessagesList(2, 2, 0, 0, 1) = EmptyPage

\* the replies of p that are not deleted
LiveReplies(p) ==
  {k \in MessageIds : messages[k].parentMessageId = p /\ messages[k].deletedAt = 0}

C4_DeletedHidden ==
  /\ (last.op = "messages.remove" /\ last.ok) => messages[last.msg].deletedAt # 0
  /\ \A m \in MessageIds :
        messages[m].deletedAt # 0 =>
          /\ \A u \in Callers, ch \in {0} \cup ChannelIds, dm \in {0} \cup DmIds :
                m \notin ListedTo(u, ch, dm)
          /\ \A u \in Callers, p \in MessageIds : m \notin ThreadShownTo(u, p)
          /\ GetThreadCount(messages[m].parentMessageId)
               = Cardinality(LiveReplies(messages[m].parentMessageId))

C4_RowKept ==
  \A m \in MessageIds :
    /\ m \in 1..Len(messages')
    /\ messages[m].deletedAt # 0 => messages'[m].deletedAt # 0

\* C4: once remove(m) succeeded, messages.list and getThreadMessages never return m
\* and getThreadCount of m's parent does not count it; the row of m stays in the
\* table and its deletedAt, once set, stays set.
C4_SoftDelete == []C4_DeletedHidden /\ [][C4_RowKept]_vars

\* C4 witness: a reply was removed; its row is still there, and its parent, which
\* is not deleted, no longer counts it.
C4_Witness ==
  /\ last.op = "messages.remove" /\ last.ok
  /\ messages[last.msg].parentMessageId # 0
  /\ messages[last.msg].deletedAt # 0
  /\ messages[messages[last.msg].parentMessageId].deletedAt = 0
  /\ GetThreadCount(messages[last.msg].parentMessageId) = 0

\* C5: messages.list, messages.get, getThreadMessages and getUnnotifiedMessages
\* return only messages whose deletedAt is unset.
C5_OnlyLiveMessagesReturned ==
  \A m \in MessageIds :
    messages[m].deletedAt # 0 =>
      /\ \A u \in Callers, ch \in {0} \cup ChannelIds, dm \in {0} \cup DmIds :
            m \notin ListedTo(u, ch, dm)
      /\ \A u \in Callers : MessagesGet(u, m) # m
      /\ \A u \in Callers, p \in MessageIds : m \notin ThreadShownTo(u, p)
      /\ last.op = "getUnnotifiedMessages" => m \notin Range(last.page)

C6_SecondToggle ==
  (/\ last.op = "messages.addReaction" /\ last.ok
   /\ last'.op = "messages.addReaction" /\ last'.ok
   /\ last'.caller = last.caller /\ last'.msg = last.msg /\ last'.emoji = last.emoji
   /\ last' # last) =>
     /\ HasReaction(last.caller, last.msg, last.emoji)' = last.had
     /\ ReactionCount(last.msg, last.emoji)' = last.count
     /\ \A e \in Emojis \ {last.emoji} :
           /\ HasReaction(last.caller, last.msg, e)' = HasReaction(last.caller, last.msg, e)
           /\ ReactionCount(last.msg, e)' = ReactionCount(last.msg, e)

\* between two calls of u for (m, e), calls of other users or for other reactions
\* leave u's (m, e) reaction as it is: only a successful addReaction(m, e) of u
\* changes it, and each such call flips it and moves the count of e on m by one
C6_OnlyOwnToggleFlips ==
  /\ \A u \in Users, m \in MessageIds, e \in Emojis :
        HasReaction(u, m, e)' # HasReaction(u, m, e) =>
          /\ last'.op = "messages.addReaction" /\ last'.ok
          /\ last'.caller = u /\ last'.msg = m /\ last'.emoji = e
  /\ \A u \in Users, m \in MessageIds, e \in Emojis :
        (/\ last'.op = "messages.addReaction" /\ last'.ok /\ reactions' # reactions
         /\ last'.caller = u /\ last'.msg = m /\ last'.emoji = e) =>
          /\ HasReaction(u, m, e)' = ~HasReaction(u, m, e)
          /\ ReactionCount(m, e)'
               = ReactionCount(m, e) + (IF HasReaction(u, m, e) THEN -1 ELSE 1)
  /\ (last'.op = "messages.addReaction" /\ last'.ok /\ last' # last)
        => reactions' # reactions

\* C6: two successive successful addReaction(m, e) calls of a user u, with no other
\* call of u for (m, e) in between, leave u's (m, u, e) reaction present or absent as
\* it was before the first, and the net change of the count of e on m is zero; the
\* user's other reactions on m are untouched.
C6_ToggleTwiceRestores == [][C6_SecondToggle /\ C6_OnlyOwnToggleFlips]_vars

\* C6 witness: a user removed a reaction again (the second call of a pair), on an
\* emoji another user still holds, while keeping a reaction with the other emoji.
C6_Witness ==
  /\ last.op = "messages.addReaction" /\ last.ok /\ last.had
  /\ last.count = 2
  /\ ReactionCount(last.msg, last.emoji) = 1
  /\ \E e \in Emojis \ {last.emoji} : HasReaction(last.caller, last.msg, e)

\* C7: the reactions table holds at most one row per (messageId, userId, emoji), so
\* the unique() lookup of addReaction never finds two rows.
C7_OneRowPerReaction ==
  /\ \A r \in BagToSet(reactions) : CopiesIn(r, reactions) = 1
  /\ last.err # "unique() found several rows"
  /\ \A u \in Users, m \in MessageIds, e \in Emojis :
        AddReactionError(u, m, e, FALSE) = ""

\* C7 witness: after toggles of several users, two users hold the same emoji on one
\* message and one of them holds both emojis.
C7_Witness ==
  /\ last.op = "messages.addReaction" /\ last.ok
  /\ \E m \in MessageIds, e \in Emojis, u, v \in Users :
        /\ u # v /\ HasReaction(u, m, e) /\ HasReaction(v, m, e)
        /\ \A f \in Emojis : HasReaction(u, m, f)

ParticipantSet(u, ps) == {u} \cup Range(ps)

C8_RepeatedCreate ==
  (/\ last.op = "directMessages.create" /\ last.ok
   /\ last'.op = "directMessages.create" /\ last'.ok
   /\ last'.caller = last.caller /\ last'.ws = last.ws
   /\ ParticipantSet(last'.caller, last'.participants)
        = ParticipantSet(last.caller, last.participants)) =>
     /\ last'.ret = last.ret
     /\ directMessages' = directMessages

\* once a DM with a participant set exists, every create call leaves it the DM found
\* for that set, and a create for that set, in any order and with or without the
\* caller listed, returns it and inserts nothing
C8_CreateKeepsExisting ==
  (last'.op = "directMessages.create" /\ last'.ok) =>
    \A ws \in WorkspaceIds, u \in Users, ps \in ParticipantArgs :
      LET participants == NormalizeParticipants(u, ps)
          existingDM == FindExistingDm(ws, participants)
      IN existingDM # 0 =>
           /\ FindExistingDm(ws, participants)' = existingDM
           /\ (last'.caller = u /\ last'.ws = ws /\ last'.participants = ps) =>
                 /\ last'.ret = existingDM
                 /\ directMessages' = directMessages

\* C8: directMessages.create is idempotent per participant set: a create call that
\* repeats the caller's previous create in the same workspace with the same set of
\* participants (in any order, with or without the caller listed) returns the id
\* the previous call returned and inserts no row, and so does any create call for
\* a set whose DM exists, however many create calls came before.
C8_DmCreateIdempotent == [][C8_RepeatedCreate /\ C8_CreateKeepsExisting]_vars

\* C8 witness: user 1 asked for the DM with user 2 and 3 in reversed order and got
\* DM 1 back, the table holding a later DM as well.
C8_Witness ==
  /\ last.op = "directMessages.create" /\ last.ok /\ last.caller = 1
  /\ last.participants = <<3, 2>>
  /\ last.ret = 1
  /\ Len(directMessages) = 2
  /\ directMessages[1].participants = <<1, 2, 3>>

\* C9: no two directMessages rows of one workspace have the same participant set.
C9_OneDmPerParticipantSet ==
  \A d, e \in DmIds :
    (d # e /\ directMessages[d].workspaceId = directMessages[e].workspaceId) =>
      Range(directMessages[d].participants) # Range(directMessages[e].participants)

\* C10: every directMessages row has a duplicate-free participants list of at least
\* two users, and the row a create call returns includes the caller.
C10_ParticipantsWellFormed ==
  /\ \A d \in DmIds :
        /\ Len(directMessages[d].participants) >= 2
        /\ Cardinality(Range(directMessages[d].participants))
             = Len(directMessages[d].participants)
  /\ (last.op = "directMessages.create" /\ last.ok)
       => Includes(directMessages[last.ret].participants, last.caller)

\* ------------------------------------------------------------ invites and roles
InviteTokens == 1..Len(invites)
\* a call was made in this step and it is a joinByInvite
JoinCalled == last'.op = "joinByInvite" /\ last' # last

\* a used invite is refused to every user
C11_UsedInviteRejected ==
  \A t \in InviteTokens, u \in Users :
    invites[t].usedAt # 0 => JoinByInviteError(u, t) = "Invalid or expired invite"

\* a successful redemption finds its invite unused and leaves it used, a used invite
\* stays as it is, and a failed redemption inserts no membership
C11_RedeemedOnce ==
  /\ \A t \in InviteTokens : invites[t].usedAt # 0 => invites'[t] = invites[t]
  /\ (JoinCalled /\ last'.ok) =>
        invites[last'.token].usedAt = 0 /\ invites'[last'.token].usedAt # 0
  /\ (JoinCalled /\ ~last'.ok) =>
        workspaceMembers' = workspaceMembers /\ invites' = invites

\* C11: an invite token is redeemed at most once: a joinByInvite succeeds only on an
\* unused invite and marks it used for good, and every later redemption by any user
\* fails with "Invalid or expired invite" and inserts no workspaceMembers row.
C11_InviteSingleUse == []C11_UsedInviteRejected /\ [][C11_RedeemedOnce]_vars

\* C11 witness: user 3, who is in no workspace, had a redemption refused as invalid
\* while the other invite would have let them in: the refused token was the first
\* invite, which is used and not expired.
C11_Witness ==
  /\ last.op = "joinByInvite" /\ last.caller = 3
  /\ last.err = "Invalid or expired invite"
  /\ Len(invites) = MaxInvites
  /\ invites[1].usedAt # 0 /\ invites[1].expiresAt > now
  /\ \A t \in InviteTokens \ {1} : JoinByInviteError(3, t) = ""
  /\ \A ws \in WorkspaceIds : ~IsWsMember(ws, 3)

\* the row joinByInvite inserts for a redeemer
JoinedRow(u, t) == [workspaceId |-> invites[t].workspaceId, userId |-> u, role |-> "member"]

C12_MarkedIffJoined ==
  /\ (JoinCalled /\ last'.ok) =>
        /\ invites[last'.token].usedAt = 0
        /\ invites' = [invites EXCEPT ![last'.token].usedAt = now]
        /\ Copies(workspaceMembers, JoinedRow(last'.caller, last'.token)) = 0
        /\ workspaceMembers' =
             BagAdd(workspaceMembers, JoinedRow(last'.caller, last'.token))
  /\ ~(JoinCalled /\ last'.ok) =>
        /\ Len(invites') >= Len(invites)
        /\ \A t \in InviteTokens : invites'[t].usedAt = invites[t].usedAt
        /\ JoinCalled => workspaceMembers' = workspaceMembers

\* C12: joinByInvite is all or nothing: a successful call marks its invite used and
\* inserts exactly one workspaceMembers row (role member) for the caller in the same
\* step; a failed call does neither, and no other step marks an invite used.
C12_JoinAllOrNothing == [][C12_MarkedIffJoined]_vars

\* C12 witness: user 2 redeemed an invite: it is marked used at the time of the call
\* and user 2 has one row, with role member.
C12_Witness ==
  /\ last.op = "joinByInvite" /\ last.ok /\ last.caller = 2
  /\ invites[last.token].usedAt = now
  /\ Copies(workspaceMembers, JoinedRow(2, last.token)) = 1
  /\ WsRowCount(invites[last.token].workspaceId, 2) = 1

\* C13: joinByInvite accepts an invite only when usedAt is unset and expiresAt > now:
\* no user is accepted on an invite at a time now >= expiresAt, and the usedAt a
\* redemption stored (the time of the call) is before the invite's expiresAt.
C13_ExpiryIsStrict ==
  /\ \A t \in InviteTokens, u \in Users :
        JoinByInviteError(u, t) = "" => invites[t].usedAt = 0 /\ invites[t].expiresAt > now
  /\ \A t \in InviteTokens : invites[t].usedAt # 0 => invites[t].expiresAt > invites[t].usedAt

OwnerRow(ws, u) == [workspaceId |-> ws, userId |-> u, role |-> "owner"]
\* the number of rows of a workspace with the role owner
OwnerCount(ws) ==
  SumCopies(workspaceMembers,
            {r \in BagToSet(workspaceMembers) : r.workspaceId = ws /\ r.role = "owner"})

C14_OwnerTargetRejected ==
  \A u \in Callers, ws \in WorkspaceIds, target \in Users, newRole \in {"admin", "member"} :
    Copies(workspaceMembers, OwnerRow(ws, target)) >= 1 =>
      UpdateMemberRoleError(u, ws, target, newRole) # ""

C14_OwnerRowKept ==
  \A ws \in WorkspaceIds, target \in Users :
    Copies(workspaceMembers, OwnerRow(ws, target)) >= 1 =>
      Copies(workspaceMembers', OwnerRow(ws, target))
        = Copies(workspaceMembers, OwnerRow(ws, target))

\* C14: updateMemberRole on a target whose role is owner fails for every caller
\* (owner, admin, member, non-member, unauthenticated, the owner on themselves) and
\* every new role, and no step changes an owner's row.
C14_OwnerRoleUnchangeable == []C14_OwnerTargetRejected /\ [][C14_OwnerRowKept]_vars

\* C14 witness: an admin who owns no workspace was refused with the owner error.
C14_Witness ==
  /\ last.op = "updateMemberRole" /\ last.err = "Cannot change owner role"
  /\ \E ws \in WorkspaceIds : Copies(workspaceMembers, [workspaceId |-> ws,
                                       userId |-> last.caller, role |-> "admin"]) = 1
  /\ \A ws \in WorkspaceIds : Copies(workspaceMembers, OwnerRow(ws, last.caller)) = 0

C15_OneOwner ==
  \A ws \in WorkspaceIds :
    /\ OwnerCount(ws) = 1
    /\ Copies(workspaceMembers, OwnerRow(ws, workspaces[ws].ownerId)) = 1

C15_OwnerCreatedWithWorkspace ==
  Len(workspaces') # Len(workspaces) =>
    /\ Len(workspaces') = Len(workspaces) + 1
    /\ Copies(workspaceMembers',
              OwnerRow(Len(workspaces'), workspaces'[Len(workspaces')].ownerId)) = 1
    /\ last'.op = "workspaces.create" /\ last'.ok

\* C15: after any sequence of workspaces.create, joinByInvite and updateMemberRole,
\* every workspace has exactly one workspaceMembers row with role owner, that row is
\* the one of workspaces.ownerId, and it is inserted in the step that inserts the
\* workspace.
C15_ExactlyOneOwner == []C15_OneOwner /\ [][C15_OwnerCreatedWithWorkspace]_vars

\* C15 witness: two workspaces of different owners, the owner of the first being an
\* admin of the second after a role change.
C15_Witness ==
  /\ Len(workspaces) = 2 /\ workspaces[1].ownerId # workspaces[2].ownerId
  /\ last.op = "updateMemberRole" /\ last.ok
  /\ Copies(workspaceMembers, [workspaceId |-> 2, userId |-> workspaces[1].ownerId,
                                role |-> "admin"]) = 1

\* ------------------------------------------------------------ pages, edits, threads
\* every page of a listing, from the first to the one with isDone, in the order read
RECURSIVE ListAll(_, _, _, _, _)
ListAll(u, ch, dm, cursor, numItems) ==
  LET r == MessagesList(u, ch, dm, cursor, numItems)
  IN IF r.isDone THEN r.page ELSE r.page \o ListAll(u, ch, dm, r.continueCursor, numItems)
RECURSIVE ThreadAll(_, _, _, _)
ThreadAll(u, parent, cursor, numItems) ==
  LET r == GetThreadMessages(u, parent, cursor, numItems)
  IN IF r.isDone THEN r.page ELSE r.page \o ThreadAll(u, parent, r.continueCursor, numItems)

\* the top-level messages of a channel or DM, and the replies to p, deleted or not
TopLevelOf(ch, dm) ==
  {m \in MessageIds :
     /\ IF ch # 0 THEN messages[m].channelId = ch ELSE messages[m].dmId = dm
     /\ messages[m].parentMessageId = 0}
RepliesOf(p) == {m \in MessageIds : messages[m].parentMessageId = p}
Live(S) == {m \in S : messages[m].deletedAt = 0}
\* inserted at strictly increasing timestamps (ids are in insertion order)
InsertedAtIncreasingTimes(S) ==
  \A i, j \in S : i < j => messages[i].createdAt < messages[j].createdAt
NewestFirst(ids) ==
  \A i \in 1..(Len(ids) - 1) : messages[ids[i]].createdAt > messages[ids[i + 1]].createdAt
OldestFirst(ids) ==
  \A i \in 1..(Len(ids) - 1) : messages[ids[i]].createdAt < messages[ids[i + 1]].createdAt

\* C16: for a channel or DM whose top-level messages were inserted at strictly
\* increasing timestamps, the pages of messages.list, read to the end with any page
\* size, hold exactly its non-deleted top-level messages in strictly decreasing
\* createdAt order; for a parent whose replies were, the pages of getThreadMessages
\* hold exactly its non-deleted replies in strictly increasing createdAt order.
C16_PagesOrdered ==
  /\ \A u \in Users, ch \in {0} \cup ChannelIds, dm \in {0} \cup DmIds, n \in PageSizes :
        (/\ (ch = 0) # (dm = 0)
         /\ ListAuthorized(u, ch, dm)
         /\ InsertedAtIncreasingTimes(TopLevelOf(ch, dm))) =>
          /\ NewestFirst(ListAll(u, ch, dm, 0, n))
          /\ Range(ListAll(u, ch, dm, 0, n)) = Live(TopLevelOf(ch, dm))
          /\ Len(ListAll(u, ch, dm, 0, n)) = Cardinality(Live(TopLevelOf(ch, dm)))
  /\ \A u \in Users, p \in MessageIds, n \in PageSizes :
        (/\ IsWsMember(messages[p].workspaceId, u)
         /\ InsertedAtIncreasingTimes(RepliesOf(p))) =>
          /\ OldestFirst(ThreadAll(u, p, 0, n))
          /\ Range(ThreadAll(u, p, 0, n)) = Live(RepliesOf(p))
          /\ Len(ThreadAll(u, p, 0, n)) = Cardinality(Live(RepliesOf(p)))

\* C16 witness: three top-level messages sent at three different times, the middle
\* one removed since: read one per page, the listing is message 3, then message 1.
C16_Witness ==
  /\ last.op = "messages.remove" /\ last.ok /\ last.msg = 2
  /\ TopLevelOf(1, 0) = 1..MaxListed
  /\ InsertedAtIncreasingTimes(TopLevelOf(1, 0))
  /\ ListAll(2, 1, 0, 0, 1) = <<3, 1>>

\* a call was made in this step and it is an edit
EditCalled == last'.op = "messages.edit" /\ last' # last

C17_OnlySenderEdits ==
  \A u \in Callers, m \in MessageIds : messages[m].senderId # u => EditError(u, m) # ""

C17_EditFrame ==
  /\ (EditCalled /\ last'.ok) =>
        /\ messages[last'.msg].senderId = last'.caller
        /\ \E text \in EditTexts :
              messages' = [messages EXCEPT ![last'.msg].text = text,
                                           ![last'.msg].editedAt = now]
        /\ messages'[last'.msg].editedAt # 0
  /\ (EditCalled /\ ~last'.ok) => messages' = messages
  /\ EditCalled =>
        UNCHANGED <<workspaces, workspaceMembers, channels, channelMembers,
                    directMessages, reactions, invites, channelNotifications>>

\* C17: edit(m, text) by the sender of m sets text and editedAt and leaves senderId,
\* workspaceId, channelId, dmId, parentMessageId, createdAt and every other row as
\* they are; edit by anyone else raises an error and changes no row.
C17_EditBySenderOnly == []C17_OnlySenderEdits /\ [][C17_EditFrame]_vars

\* C17 witness: user 1 edited their message, the only one, and user 2's edit of it
\* was refused since: the edited text and editedAt are those of user 1's edit.
C17_Witness ==
  /\ last.op = "messages.edit" /\ last.caller = 2
  /\ last.err = "Cannot edit this message"
  /\ Len(messages) = 1
  /\ messages[1].senderId = 1 /\ messages[1].text \in EditTexts
  /\ messages[1].editedAt # 0 /\ messages[1].createdAt < messages[1].editedAt

\* C18: a message sent with a parentMessageId is in no page of the top-level
\* messages.list of any channel or DM, and getThreadCount(p) is the number of rows
\* with parentMessageId = p whose deletedAt is unset.
C18_RepliesOffTimeline ==
  /\ \A m \in MessageIds :
        messages[m].parentMessageId # 0 =>
          \A u \in Callers, ch \in {0} \cup ChannelIds, dm \in {0} \cup DmIds :
            m \notin ListedTo(u, ch, dm)
  /\ \A p \in MessageIds : GetThreadCount(p) = Cardinality(Live(RepliesOf(p)))

\* C18 witness: user 2 replied to user 1's message in the public channel: the thread
\* count of the parent is 1 and the channel's listing shows the parent only.
C18_Witness ==
  /\ last.op = "messages.send" /\ last.ok /\ last.caller = 2 /\ last.msg = 1
  /\ messages[1].senderId = 1 /\ messages[1].channelId = 1
  /\ messages[last.ret].parentMessageId = 1 /\ messages[last.ret].channelId = 1
  /\ GetThreadCount(1) = 1
  /\ ListedTo(2, 1, 0) = {1}

\* ------------------------------------------------------------ targets and watermarks
\* C19: every message row has exactly one of channelId and dmId set, and that channel
\* or DM is one of the row's workspaceId; a send that succeeded named exactly one of
\* the two.
C19_ExactlyOneTarget ==
  /\ \A m \in MessageIds :
        /\ (messages[m].channelId # 0) # (messages[m].dmId # 0)
        /\ messages[m].channelId # 0 =>
              channels[messages[m].channelId].workspaceId = messages[m].workspaceId
        /\ messages[m].dmId # 0 =>
              directMessages[messages[m].dmId].workspaceId = messages[m].workspaceId
  /\ (last.op = "messages.send" /\ last.ok) => (last.ch # 0) # (last.dm # 0)

\* the enabled notification rows on the channel of message m
EnabledRowsOn(m) ==
  {i \in 1..Len(channelNotifications) :
     /\ channelNotifications[i].enabled
     /\ channelNotifications[i].channelId = messages[m].channelId}

\* C20: a message inserted into a channel is not lost to a user with an enabled
\* notification row on it: at its insertion it lies above the row's lastSeen, so that
\* the user's next poll, which reads createdAt > lastSeen, returns it (lastSeen never
\* moves back, so a message inserted at or below it is returned by no later poll).
C20_InsertedAboveWatermark ==
  (last.op = "messages.send" /\ last.ok /\ messages[last.ret].channelId # 0) =>
    \A i \in EnabledRowsOn(last.ret) :
      channelNotifications[i].lastSeen < messages[last.ret].createdAt

\* ------------------------------------------------------------ channel administration
\* Two workspaces in use: user 1 created workspace 1 and user 3 workspace 2 (each with
\* its public channel "general"); user 2 redeemed an invite to each and is a member of
\* both.  Spec reaches this state in six calls.
TwoWorkspaces ==
  /\ workspaces = <<[ownerId |-> 1], [ownerId |-> 3]>>
  /\ workspaceMembers = SetToBag({[workspaceId |-> 1, userId |-> 1, role |-> "owner"],
                                  [workspaceId |-> 2, userId |-> 3, role |-> "owner"],
                                  [workspaceId |-> 1, userId |-> 2, role |-> "member"],
                                  [workspaceId |-> 2, userId |-> 2, role |-> "member"]})
  /\ channels = <<[workspaceId |-> 1, name |-> "general", isPrivate |-> FALSE,
                   createdBy |-> 1, exists |-> TRUE],
                  [workspaceId |-> 2, name |-> "general", isPrivate |-> FALSE,
                   createdBy |-> 3, exists |-> TRUE]>>
  /\ channelMembers = SetToBag({[channelId |-> 1, userId |-> 1],
                                [channelId |-> 2, userId |-> 3]})
  /\ directMessages = <<>>
  /\ messages = <<>>
  /\ reactions = EmptyBag
  /\ invites = <<[workspaceId |-> 1, invitedBy |-> 1, expiresAt |-> 1 + InviteTtl,
                  usedAt |-> 1],
                 [workspaceId |-> 2, invitedBy |-> 3, expiresAt |-> 1 + InviteTtl,
                  usedAt |-> 1]>>
  /\ channelNotifications = <<>>
  /\ now = 1
InitChan ==
  TwoWorkspaces /\ last = Call("joinByInvite", 2, [NoArgs EXCEPT !.token = 2], "", 2, <<>>)

JoinAny == \E u \in Callers, ch \in ChannelIds : Join(u, ch)
RemoveMemberAny ==
  \E u \in Callers, ch \in ChannelIds, t \in Users : RemoveMember(u, ch, t)
DeleteChannelAny == \E u \in Callers, ch \in ChannelIds : DeleteChannel(u, ch)

NextChan ==
  \/ ChannelsCreateAny \/ AddMemberAny \/ JoinAny \/ LeaveAny \/ RemoveMemberAny
  \/ DeleteChannelAny
SpecChan == InitChan /\ [][NextChan]_vars

\* deleting channels that users have notification settings for
NextCascade == JoinAny \/ DeleteChannelAny \/ ToggleAny
SpecCascade == InitChan /\ [][NextCascade]_vars

\* calls that raise: invites, sends, channel deletion and channel membership
NextFail ==
  GenerateInviteAny \/ JoinByInviteAny \/ SendAny \/ DeleteChannelAny \/ AddMemberAny
SpecFail == InitSeeded /\ [][NextFail]_vars

\* ------------------------------------------------------------ quotas and queries
WorkspacesCreatedBy(u) == {ws \in WorkspaceIds : workspaces[ws].ownerId = u}
InvitesCreatedBy(u) == {t \in InviteTokens : invites[t].invitedBy = u}

\* C21: within one window a user completes no more successful calls of a rate-gated
\* mutation than its quota: no user has created more workspaces than the
\* createWorkspace quota or more invites than the createInvite quota.
C21_WithinQuota ==
  \A u \in Users :
    /\ Cardinality(WorkspacesCreatedBy(u)) <= CreateWorkspaceRate
    /\ Cardinality(InvitesCreatedBy(u)) <= CreateInviteRate

\* C22: no query raises on missing authentication or authorization: workspaces.get
\* and channels.get return for every caller, signed in or not, member or not.
C22_QueriesNeverRaise ==
  /\ \A u \in Callers, ws \in WorkspaceIds : WorkspacesGetError(u, ws) = ""
  /\ \A u \in Callers, ch \in ChannelIds : ChannelsGetError(u, ch) = ""

\* ------------------------------------------------------------ channel membership
\* C23: every ChannelMember row and every ChannelNotification row references an
\* existing channel; in particular none that references C is left after a successful
\* deleteChannel(C).
C23_RowsReferenceExistingChannels ==
  /\ \A r \in BagToSet(channelMembers) : ChannelExists(r.channelId)
  /\ \A i \in 1..Len(channelNotifications) :
       ChannelExists(channelNotifications[i].channelId)

\* the channels of ws that channels.list owes to u: the public ones and the private ones
\* u has a channelMembers row for
VisibleChannels(u, ws) ==
  {c \in ChannelIds :
     /\ channels[c].exists /\ channels[c].workspaceId = ws
     /\ ~channels[c].isPrivate \/ BagIn([channelId |-> c, userId |-> u], channelMembers)}

\* C24: for a member u of ws, channels.list(ws) returns exactly the public channels of
\* ws and the private channels of ws u has a ChannelMember row for, each once; for a
\* non-member and for an unauthenticated caller it returns the empty list.
C24_ListIsPublicAndOwnPrivate ==
  \A u \in Callers, ws \in WorkspaceIds :
    IF u # NoUser /\ IsWsMember(ws, u)
    THEN /\ Range(ChannelsList(u, ws)) = VisibleChannels(u, ws)
         /\ Len(ChannelsList(u, ws)) = Cardinality(VisibleChannels(u, ws))
    ELSE ChannelsList(u, ws) = <<>>

\* user 2 created the private channel 3 in workspace 1: it is listed to user 2 and
\* not to the owner, user 1; workspace 2 lists user 2 its own channel only, and user 3,
\* no member of workspace 1, gets the empty list
C24_Witness ==
  /\ ChannelExists(3) /\ channels[3].isPrivate /\ channels[3].workspaceId = 1
  /\ IsChMember(3, 2) /\ ~IsChMember(3, 1)
  /\ ChannelsList(2, 1) = <<1, 3>>
  /\ ChannelsList(1, 1) = <<1>>
  /\ ChannelsList(2, 2) = <<2>>
  /\ ChannelsList(3, 1) = <<>>

\* C26 (state): there is at most one ChannelMember row per (channelId, userId).
C26_OneRowPerMember ==
  \A r \in BagToSet(channelMembers) : CopiesIn(r, channelMembers) = 1

\* C26 (calls): addMember of a user already in the channel raises (the duplicate error
\* when the adder may add), leave and removeMember of a user not in the channel raise,
\* and join of a public channel by a workspace member who is already in it succeeds.
C26_DuplicateAndMissingRaise ==
  /\ \A u \in Callers, ch \in ChannelIds, t \in Users :
       /\ IsChMember(ch, t) => AddMemberError(u, ch, t) # ""
       /\ IsChMember(ch, t) /\ u # NoUser /\ IsChMember(ch, u)
            => AddMemberError(u, ch, t) = "User is already a member of this channel"
       /\ ~IsChMember(ch, t) => RemoveMemberError(u, ch, t) # ""
  /\ \A u \in Callers, ch \in ChannelIds :
       /\ ~IsChMember(ch, u) => LeaveError(u, ch) # ""
       /\ u # NoUser /\ IsChMember(ch, u) /\ ~channels[ch].isPrivate => JoinError(u, ch) = ""

\* C26 (steps): a channels call that raises, and a join by a user already in the
\* channel, leave the channelMembers table as it was.
C26_TableUnchanged ==
  [][/\ last' # last /\ ~last'.ok => channelMembers' = channelMembers
     /\ last' # last /\ last'.op = "channels.join" /\ last'.ok
          /\ IsChMember(last'.ch, last'.caller) => channelMembers' = channelMembers]_vars

C27_ChannelMembersAreWorkspaceMembers ==
  \A r \in BagToSet(channelMembers) :
    /\ r.channelId \in ChannelIds
    /\ IsWsMember(channels[r.channelId].workspaceId, r.userId)

\* an addMember of a user outside the channel's workspace was refused, while a channel
\* has a member other than its creator
C27_Witness ==
  /\ last.op = "channels.addMember"
  /\ last.err = "User is not a member of this workspace"
  /\ \E r \in BagToSet(channelMembers) : channels[r.channelId].createdBy # r.userId

\* ------------------------------------------------------------ roles
\* C25 (admins): a user's role in a workspace becomes admin only in a successful
\* updateMemberRole call on that user whose caller is owner of the workspace.
C25_AdminOnlyByOwner ==
  [][\A ws \in WorkspaceIds, t \in Users :
       WsRole(ws, t) # "admin" /\ WsRole(ws, t)' = "admin"
         => /\ last'.op = "updateMemberRole" /\ last'.ok
            /\ last'.ws = ws /\ last'.user = t
            /\ WsRole(ws, last'.caller) = "owner"]_vars

\* C25 (owners): no call gives an existing workspace a new owner.
C25_NoNewOwner ==
  [][\A ws \in WorkspaceIds, t \in Users :
       WsRole(ws, t) # "owner" => WsRole(ws, t)' # "owner"]_vars

C28_ParticipantsAreWorkspaceMembers ==
  \A d \in DmIds :
    \A i \in 1..Len(directMessages[d].participants) :
      IsWsMember(directMessages[d].workspaceId, directMessages[d].participants[i])

\* C29: every reply refers to an existing message of the same workspace and of the
\* same channel or DM, so a thread holds messages of its parent's conversation only.
C29_ReplyInParentsConversation ==
  \A m \in MessageIds :
    messages[m].parentMessageId # 0
      => /\ MessageExists(messages[m].parentMessageId)
         /\ messages[messages[m].parentMessageId].workspaceId = messages[m].workspaceId
         /\ messages[messages[m].parentMessageId].channelId = messages[m].channelId
         /\ messages[messages[m].parentMessageId].dmId = messages[m].dmId

=========================================================================
